---------------------------- MODULE Spec2Model ----------------------------
(***************************************************************************)
(* Day 17 register machine (src/day17/src/lib.rs): the Computer, its tick  *)
(* (fetch / decode / execute), and the backward quine search solve_part2.  *)
(*                                                                         *)
(* Rust indexes from 0, TLA+ sequences from 1: program.get(i) is           *)
(* program[i + 1].  Registers are u64; every value the bounded model       *)
(* reaches stays far below 2^31, so no register arithmetic wraps here.     *)
(***************************************************************************)
EXTENDS Integers, Sequences, FiniteSets, TLC

VARIABLES
    program,              \* Computer.program: Vec<ThreeBit> (u8)
    registers,            \* Computer.registers: [Register; 3]
    instruction_pointer,  \* Computer.instruction_pointer: usize
    output,               \* Computer.output: Vec<ThreeBit>
    tick_result,          \* what the last call of tick returned ("None" before any)
    prev,                 \* history: registers, ip and output before the last tick
    start,                \* history: the registers the run started from
    odd_jump_taken,       \* history: a Jnz with an odd operand has been taken
    queue,                \* solve_part2: VecDeque<SearchNode>
    min_a,                \* solve_part2: Option<Register>
    solve_pc,             \* solve_part2: "idle", "loop", "done" or "panic"
    checked,              \* history: the trials of the node popped last
    full_matches,         \* history: every trial that matched at program index 0
    evaluations,          \* history: number of apply_cycle calls so far
    expect,               \* tests::example_apply_cycle_manual: the value a starts from
    manual_a,             \* tests::example_apply_cycle_manual: a
    outputs,              \* tests::example_apply_cycle_manual: outputs
    disk_map,             \* day09: the digits handed to fs_from_str
    fs,                   \* day09: Filesystem (VecList<FilesystemEntry>), front to back
    cursor,               \* day09: cursor, as a position in fs (0: an index no longer valid)
    lowest_checked_file_id, \* day09: compact_filesystem_no_fragments' local
    pc09,                 \* day09: where the routine under way stands
    considered,           \* history: the file ids compact_filesystem_no_fragments examined
    operands,             \* day07: Operations, the boxed slice of Operation
    overflowed,           \* day07: what the last call of Operations::increment returned,
                          \*        "true" or "false" ("panic": it did not return)
    increment_calls,      \* history: the number of calls of Operations::increment
    visited,              \* history: the vectors the calls have left behind
    width,                \* day14: Simulation.width
    height,               \* day14: Simulation.height
    elapsed_seconds,      \* day14: Simulation.elapsed_seconds
    robots,               \* day14: Simulation.robots
    constructed,          \* history: the robots Simulation::new was given
    pc14                  \* day14: "idle", "new", "tick", "multitick" or "panic"

vars == <<program, registers, instruction_pointer, output, tick_result, prev,
          start, odd_jump_taken, queue, min_a, solve_pc, checked, full_matches, evaluations,
          expect, manual_a, outputs,
          disk_map, fs, cursor, lowest_checked_file_id, pc09, considered,
          operands, overflowed, increment_calls, visited,
          width, height, elapsed_seconds, robots, constructed, pc14>>

computer_vars ==
    <<registers, instruction_pointer, output, tick_result, prev, start, odd_jump_taken>>
solver_vars == <<queue, min_a, solve_pc, checked, full_matches, evaluations>>
manual_vars == <<expect, manual_a, outputs>>
\* the variables of everything that is not the computer or its solver
day09_vars == <<disk_map, fs, cursor, lowest_checked_file_id, pc09, considered>>
day07_vars == <<operands, overflowed, increment_calls, visited>>
day14_vars == <<width, height, elapsed_seconds, robots, constructed, pc14>>
other_vars == <<manual_vars, day09_vars, day07_vars, day14_vars>>

----------------------------------------------------------------------------
(* Bounds of the model *)

\* longest program enumerated exhaustively
MaxProgLen == 3
\* largest program byte enumerated (8 stands for the u8 values above 0b111)
MaxByte == 8
\* tick is not taken any more once the output holds this many values
MaxOutput == 11
\* largest A tried by the brute-force quine search
MaxBruteA == 117440

----------------------------------------------------------------------------
(* Bit operations on naturals, as the machine computes them *)

RECURSIVE BitAnd(_, _)
BitAnd(x, y) ==
    IF x = 0 \/ y = 0 THEN 0
    ELSE (IF (x % 2) = 1 /\ (y % 2) = 1 THEN 1 ELSE 0) + 2 * BitAnd(x \div 2, y \div 2)

RECURSIVE BitOr(_, _)
BitOr(x, y) ==
    IF x = 0 THEN y
    ELSE IF y = 0 THEN x
    ELSE (IF (x % 2) = 1 \/ (y % 2) = 1 THEN 1 ELSE 0) + 2 * BitOr(x \div 2, y \div 2)

RECURSIVE BitXor(_, _)
BitXor(x, y) ==
    IF x = 0 THEN y
    ELSE IF y = 0 THEN x
    ELSE (IF (x % 2) = (y % 2) THEN 0 ELSE 1) + 2 * BitXor(x \div 2, y \div 2)

\* x >> k for a shift amount below the register width
RECURSIVE Shr(_, _)
Shr(x, k) == IF k = 0 \/ x = 0 THEN x ELSE Shr(x \div 2, k - 1)

\* x << k; the values shifted in the model keep clear of bit 63
RECURSIVE Shl(_, _)
Shl(x, k) == IF k = 0 THEN x ELSE Shl(2 * x, k - 1)

\* bits of a Register
RegisterBits == 64

----------------------------------------------------------------------------
(* enum Instruction, #[repr(u8)] *)

Adv == 0
Bxl == 1
Bst == 2
Jnz == 3
Bxc == 4
Out == 5
Bdv == 6
Cdv == 7

\* from_repr keeping the low three bits of the byte
from_repr_masked(byte) == <<byte % 8>>

\* Instruction::from_repr: Some for 0..=7, None otherwise
from_repr(byte) == IF byte \in 0..7 THEN <<byte>> ELSE <<>>

\* Result<T>
Ok(v) == [ok |-> TRUE, val |-> v]
Err(msg) == [ok |-> FALSE, val |-> msg]

NoOperand == "program terminated with instruction but no operand"
OperandRange == "operand out of range for ThreeBit"
Reserved7 == "register 7 is reserved and not present in valid programs"
InvalidInstruction == "invalid instruction"
ErrorMessages == {NoOperand, OperandRange, Reserved7, InvalidInstruction}

\* The Computer as a value
Computer(p, r, ip, out) ==
    [program |-> p, registers |-> r, instruction_pointer |-> ip, output |-> out]

\* get with the index wrapped into the vector
Get_wrapping(vec, i) == IF vec = <<>> THEN <<>> ELSE <<vec[(i % Len(vec)) + 1]>>

\* Vec::get
Get(vec, i) == IF i < Len(vec) THEN <<vec[i + 1]>> ELSE <<>>

\* Computer::operand
operand(c) ==
    LET got == Get(c.program, c.instruction_pointer + 1) IN
    IF got = <<>> THEN Err(NoOperand)
    ELSE IF BitAnd(got[1], 248) # 0 THEN Err(OperandRange)
    ELSE Ok(got[1])

\* Computer::literal_operand
literal_operand(c) == operand(c)

\* combo_operand with the register index off by one (4 reads B, 5 reads C, 6 reads A)
combo_operand_rotated(c) ==
    LET o == operand(c) IN
    IF ~o.ok THEN o
    ELSE IF o.val \in 0..3 THEN Ok(o.val)
    ELSE IF o.val \in 4..6 THEN Ok(c.registers[((o.val - 3) % 3) + 1])
    ELSE Err(Reserved7)

\* combo_operand with the reserved value 7 read as a literal
combo_operand_seven_literal(c) ==
    LET o == operand(c) IN
    IF ~o.ok THEN o
    ELSE IF o.val \in 4..6 THEN Ok(c.registers[(o.val - 4) + 1])
    ELSE Ok(o.val)

\* Computer::combo_operand
combo_operand(c) ==
    LET o == operand(c) IN
    IF ~o.ok THEN o
    ELSE IF o.val \in 0..3 THEN Ok(o.val)
    ELSE IF o.val \in 4..6 THEN Ok(c.registers[(o.val - 4) + 1])
    ELSE Err(Reserved7)

\* next_ip with the operand of Jnz taken relative to the instruction pointer
next_ip_relative(c, instruction) ==
    IF instruction = Jnz /\ c.registers[1] # 0
    THEN IF Get(c.program, c.instruction_pointer + 1) = <<>> THEN <<>>
         ELSE <<c.instruction_pointer + Get(c.program, c.instruction_pointer + 1)[1]>>
    ELSE <<c.instruction_pointer + 2>>

\* next_ip stepping over the opcode only
next_ip_single_step(c, instruction) ==
    IF instruction = Jnz /\ c.registers[1] # 0
    THEN Get(c.program, c.instruction_pointer + 1)
    ELSE <<c.instruction_pointer + 1>>

\* next_ip without the jump
next_ip_falls_through(c, instruction) == <<c.instruction_pointer + 2>>

\* Computer::next_ip: <<ip>>, or <<>> when the index program[ip + 1] panics
next_ip(c, instruction) ==
    IF instruction = Jnz /\ c.registers[1] # 0
    THEN Get(c.program, c.instruction_pointer + 1)
    ELSE <<c.instruction_pointer + 2>>

\* right_shift with the result truncated to 3 bits, as the doc comments of
\* Adv, Bdv and Cdv word it
right_shift_three_bits(c, combo, store_idx) ==
    {[c.registers EXCEPT
        ![store_idx + 1] = BitAnd(Shr(c.registers[1], combo % RegisterBits), 7)]}

\* right_shift dividing by 2 ** (combo + 1)
right_shift_one_more(c, combo, store_idx) ==
    {[c.registers EXCEPT ![store_idx + 1] = Shr(c.registers[1], combo + 1)]}

\* right_shift storing every quotient in A, whatever store_idx says
right_shift_into_a(c, combo, store_idx) ==
    {[c.registers EXCEPT ![1] = Shr(c.registers[1], combo % RegisterBits)]}

\* Computer::right_shift: the register files the build can produce; an empty
\* sequence stands for the panic of a debug build on a shift amount >= 64,
\* where a release build masks the amount to the register width.
right_shift(c, combo, store_idx) ==
    IF combo < RegisterBits
    THEN {[c.registers EXCEPT ![store_idx + 1] = Shr(c.registers[1], combo)]}
    ELSE {<<>>,
          [c.registers EXCEPT ![store_idx + 1] = Shr(c.registers[1], combo % RegisterBits)]}

\* outcome of one tick
Outcome(c, r, ip, out, res) ==
    [registers |-> r, instruction_pointer |-> ip, output |-> out, result |-> res]

\* an early return that has already stepped over the instruction
Unchanged_advances(c, res) ==
    Outcome(c, c.registers, c.instruction_pointer + 2, c.output, res)

\* tick's early returns: nothing has been written yet
Unchanged(c, res) == Outcome(c, c.registers, c.instruction_pointer, c.output, res)

\* the tail of tick: self.instruction_pointer = self.next_ip(instruction); Ok(true)
Advance(c, instruction, r, out) ==
    LET n == next_ip(c, instruction) IN
    IF n = <<>> THEN Unchanged(c, "panic")
    ELSE Outcome(c, r, n[1], out, "Ok(true)")

\* Computer::tick: the set of outcomes (one, unless a shift amount is >= 64)
tick(c) ==
    LET fetched == Get(c.program, c.instruction_pointer) IN
    IF fetched = <<>> THEN {Unchanged(c, "Ok(false)")}
    ELSE LET decoded == from_repr(fetched[1]) IN
    IF decoded = <<>> THEN {Unchanged(c, InvalidInstruction)}
    ELSE LET instruction == decoded[1]
             combo == combo_operand(c)
             literal == literal_operand(c)
             Shift(idx) ==
                 IF ~combo.ok THEN {Unchanged(c, combo.val)}
                 ELSE {IF r = <<>> THEN Unchanged(c, "panic")
                       ELSE Advance(c, instruction, r, c.output)
                       : r \in right_shift(c, combo.val, idx)}
         IN
         CASE instruction = Adv -> Shift(0)
           [] instruction = Bdv -> Shift(1)
           [] instruction = Cdv -> Shift(2)
           [] instruction = Bxl ->
                IF ~literal.ok THEN {Unchanged(c, literal.val)}
                ELSE {Advance(c, instruction,
                        [c.registers EXCEPT ![2] = BitXor(c.registers[2], literal.val)],
                        c.output)}
           [] instruction = Bxc ->
                {Advance(c, instruction,
                    [c.registers EXCEPT ![2] = BitXor(c.registers[2], c.registers[3])],
                    c.output)}
           [] instruction = Bst ->
                IF ~combo.ok THEN {Unchanged(c, combo.val)}
                ELSE {Advance(c, instruction,
                        [c.registers EXCEPT ![2] = BitAnd(combo.val, 7)], c.output)}
           [] instruction = Out ->
                IF ~combo.ok THEN {Unchanged(c, combo.val)}
                ELSE {Advance(c, instruction, c.registers,
                        Append(c.output, BitAnd(combo.val, 7)))}
           [] instruction = Jnz -> {Advance(c, instruction, c.registers, c.output)}

\* decimal rendering of an output value (u8::to_string)
RECURSIVE ToStr(_)
ToStr(n) ==
    LET digit == <<"0", "1", "2", "3", "4", "5", "6", "7", "8", "9">> IN
    IF n < 10 THEN digit[n + 1] ELSE ToStr(n \div 10) \o digit[(n % 10) + 1]

\* Itertools::join
RECURSIVE Join(_, _)
Join(strs, sep) ==
    IF strs = <<>> THEN ""
    ELSE IF Len(strs) = 1 THEN strs[1]
    ELSE strs[1] \o sep \o Join(Tail(strs), sep)

\* Computer::prepare_output
prepare_output(out) == Join([i \in 1..Len(out) |-> ToStr(out[i])], ",")

----------------------------------------------------------------------------
(* The programs and register files the model starts from *)

RECURSIVE ProgramsOfLen(_)
ProgramsOfLen(n) ==
    IF n = 0 THEN {<<>>}
    ELSE {Append(p, b) : p \in ProgramsOfLen(n - 1), b \in 0..MaxByte}

\* tests::example, case part1
ExampleProgram == <<0, 1, 5, 4, 3, 0>>
ExampleA == 729
\* tests::example, case part2_quine, and tests::example_solve_part2
QuineProgram == <<0, 3, 5, 4, 3, 0>>
QuineA == 117440

\* one instruction followed by a jump: the shortest programs that loop
JumpPrograms == {<<op, x, Jnz, target>> : op \in 0..7, x \in 0..7, target \in 0..7}

Programs ==
    UNION {ProgramsOfLen(n) : n \in 0..MaxProgLen}
        \cup JumpPrograms \cup {ExampleProgram, QuineProgram}

\* the largest power of two among the register values enumerated
HighBit == 2^30

StartRegisters ==
    {<<a, b, c>> : a \in {0, 5, ExampleA, QuineA, HighBit}, b \in {0, 4, 7}, c \in {0, 6, 64}}

SolverIdle ==
    /\ queue = <<>>
    /\ min_a = <<>>
    /\ solve_pc = "idle"
    /\ checked = {}
    /\ full_matches = {}
    /\ evaluations = 0

\* no manual chain of apply_cycle is under way
ManualIdle ==
    /\ expect = 0
    /\ manual_a = 0
    /\ outputs = <<>>

\* u32::MAX, the value of `!0`, is beyond TLC's integers: the largest integer
\* TLC has stands for it, far above every file id of the model
NoneChecked == 2147483647

\* no filesystem has been built
Day09Idle ==
    /\ disk_map = <<>>
    /\ fs = <<>>
    /\ cursor = 0
    /\ lowest_checked_file_id = NoneChecked
    /\ pc09 = "idle"
    /\ considered = <<>>

\* no Operations value has been made
Day07Idle ==
    /\ operands = <<>>
    /\ overflowed = "false"
    /\ increment_calls = 0
    /\ visited = {}

\* no Simulation has been made
Day14Idle ==
    /\ width = 1
    /\ height = 1
    /\ elapsed_seconds = 0
    /\ robots = <<>>
    /\ constructed = <<>>
    /\ pc14 = "idle"

\* nothing but the computer and its solver is running
OthersIdle == ManualIdle /\ Day09Idle /\ Day07Idle /\ Day14Idle

\* Computer::new, then the registers set as from_input and the tests do
Init ==
    /\ program \in Programs
    /\ registers \in StartRegisters
    /\ instruction_pointer = 0
    /\ output = <<>>
    /\ tick_result = "None"
    /\ prev = [registers |-> registers, instruction_pointer |-> 0, output |-> <<>>]
    /\ start = registers
    /\ odd_jump_taken = FALSE
    /\ SolverIdle
    /\ OthersIdle

\* one call of tick by the driving loop (a panic ends the process)
Tick ==
    /\ tick_result # "panic"
    /\ Len(output) < MaxOutput
    /\ \E o \in tick(Computer(program, registers, instruction_pointer, output)) :
        /\ registers' = o.registers
        /\ instruction_pointer' = o.instruction_pointer
        /\ output' = o.output
        /\ tick_result' = o.result
    /\ prev' = [registers |-> registers, instruction_pointer |-> instruction_pointer,
                output |-> output]
    /\ odd_jump_taken' =
         (\/ odd_jump_taken
          \/ /\ tick_result' = "Ok(true)"
             /\ Get(program, instruction_pointer) = <<Jnz>>
             /\ registers[1] # 0
             /\ Get(program, instruction_pointer + 1) # <<>>
             /\ Get(program, instruction_pointer + 1)[1] % 2 = 1)
    /\ UNCHANGED <<program, start, solver_vars, other_vars>>

Next == Tick

Spec == Init /\ [][Next]_vars

----------------------------------------------------------------------------
(* The callers' loop `while computer.tick()? {}` as a function *)

\* tick until it stops returning Ok(true): the outcomes of the last tick.
\* fuel bounds the number of ticks; a run that outlasts it yields no outcome.
RECURSIVE run_to_halt(_, _)
run_to_halt(c, fuel) ==
    IF fuel = 0 THEN {}
    ELSE UNION {IF o.result = "Ok(true)"
                THEN run_to_halt(Computer(c.program, o.registers,
                                          o.instruction_pointer, o.output), fuel - 1)
                ELSE {o}
                : o \in tick(c)}

\* ticks granted to one run of run_to_halt
MaxRunTicks == 40

\* Computer::new(program) with registers = [a, 0, 0]
Fresh(p, a) == Computer(p, <<a, 0, 0>>, 0, <<>>)

\* the check of part2 ("program must be a quine") for one value of A
IsQuine(p, a) ==
    LET ends == run_to_halt(Fresh(p, a), MaxRunTicks) IN
    /\ ends # {}
    /\ \A o \in ends : o.result = "Ok(false)" /\ o.output = p

\* one pass of the loop body: tick until the instruction pointer stops growing
RECURSIVE one_pass(_, _)
one_pass(c, fuel) ==
    IF fuel = 0 THEN {c.output}
    ELSE UNION {IF o.result = "Ok(true)" /\ o.instruction_pointer > c.instruction_pointer
                THEN one_pass(Computer(c.program, o.registers,
                                       o.instruction_pointer, o.output), fuel - 1)
                ELSE {o.output}
                : o \in tick(c)}

----------------------------------------------------------------------------
(* solve_part2 *)

\* apply_cycle without its final `^ 3`
apply_cycle_no_xor3(a) ==
    LET b0 == BitXor(BitAnd(a, 7), 2)
        c == Shr(a, b0)
        b1 == BitXor(b0, c)
    IN  BitAnd(b1, 7)

\* apply_cycle
apply_cycle(a) ==
    LET b0 == BitXor(BitAnd(a, 7), 2)
        c == Shr(a, b0)
        b1 == BitXor(b0, BitXor(c, 3))
    IN  BitAnd(b1, 7)

\* struct SearchNode
SearchNode(r, s) == [right_index |-> r, successor_a |-> s]

\* Option<Register>: None is <<>>, Some(a) is <<a>>
None == <<>>
Some(a) == <<a>>

\* Ord::min on Option<Register>, as min_a.min(Some(a)) resolves: None orders
\* before every Some
option_min(x, y) ==
    IF x = None THEN x
    ELSE IF y = None THEN y
    ELSE IF y[1] < x[1] THEN y ELSE x

\* the trial value built without shifting the successor: three_bits | successor_a
Trial_unshifted(three_bits, successor_a) == BitOr(three_bits, successor_a)

\* the trial value of one chunk: three_bits | (successor_a << 3)
Trial(three_bits, successor_a) == BitOr(three_bits, Shl(successor_a, 3))

\* the loop body without its `if index == 0` branch: every match is pushed
RECURSIVE for_three_bits_always_push(_, _, _, _, _, _, _)
for_three_bits_always_push(three_bits, node, index, expected_b, q, m, calls) ==
    IF three_bits = 8 THEN [queue |-> q, min_a |-> m, calls |-> calls]
    ELSE LET a == Trial(three_bits, node.successor_a)
             b == apply_cycle(a)
         IN  IF b = expected_b
             THEN for_three_bits_always_push(three_bits + 1, node, index, expected_b,
                                      Append(q, SearchNode(node.right_index + 1, a)), m,
                                      calls + 1)
             ELSE for_three_bits_always_push(three_bits + 1, node, index, expected_b,
                                      q, m, calls + 1)

\* the body of `for three_bits in 0..8`, from three_bits on, for the popped node
\* the loop running over 0..=8
RECURSIVE for_three_bits_inclusive(_, _, _, _, _, _, _)
for_three_bits_inclusive(three_bits, node, index, expected_b, q, m, calls) ==
    IF three_bits = 9 THEN [queue |-> q, min_a |-> m, calls |-> calls]
    ELSE LET a == Trial(three_bits, node.successor_a)
             b == apply_cycle(a)
         IN  IF b = expected_b
             THEN IF index = 0
                  THEN for_three_bits_inclusive(three_bits + 1, node, index, expected_b,
                                      q, option_min(m, Some(a)), calls + 1)
                  ELSE for_three_bits_inclusive(three_bits + 1, node, index, expected_b,
                                      Append(q, SearchNode(node.right_index + 1, a)), m,
                                      calls + 1)
             ELSE for_three_bits_inclusive(three_bits + 1, node, index, expected_b,
                                      q, m, calls + 1)

\* the body of `for three_bits in 0..8`, from three_bits on, for the popped
\* node; calls counts the calls of apply_cycle
RECURSIVE for_three_bits(_, _, _, _, _, _, _)
for_three_bits(three_bits, node, index, expected_b, q, m, calls) ==
    IF three_bits = 8 THEN [queue |-> q, min_a |-> m, calls |-> calls]
    ELSE LET a == Trial(three_bits, node.successor_a)
             b == apply_cycle(a)
         IN  IF b = expected_b
             THEN IF index = 0
                  THEN for_three_bits(three_bits + 1, node, index, expected_b,
                                      q, option_min(m, Some(a)), calls + 1)
                  ELSE for_three_bits(three_bits + 1, node, index, expected_b,
                                      Append(q, SearchNode(node.right_index + 1, a)), m,
                                      calls + 1)
             ELSE for_three_bits(three_bits + 1, node, index, expected_b, q, m, calls + 1)

\* the state on entry to solve_part2's loop; the computer is Computer::new(program)
InitSolve ==
    /\ program \in Programs
    /\ registers = <<0, 0, 0>>
    /\ instruction_pointer = 0
    /\ output = <<>>
    /\ tick_result = "None"
    /\ prev = [registers |-> registers, instruction_pointer |-> 0, output |-> <<>>]
    /\ start = registers
    /\ odd_jump_taken = FALSE
    /\ queue = <<SearchNode(0, 0)>>
    /\ min_a = None
    /\ solve_pc = "loop"
    /\ checked = {}
    /\ full_matches = {}
    /\ evaluations = 0
    /\ OthersIdle

\* one iteration of `while let Some(node) = queue.pop_front()`.  The index
\* program.len() - 1 - right_index is a usize: below zero it panics (debug
\* build) or wraps to an index past the program, which panics as well.
SolvePop ==
    /\ solve_pc = "loop"
    /\ queue # <<>>
    /\ LET node == Head(queue)
           index == Len(program) - 1 - node.right_index
       IN  IF index < 0
           THEN /\ solve_pc' = "panic"
                /\ queue' = Tail(queue)
                /\ UNCHANGED <<min_a, checked, full_matches, evaluations>>
           ELSE LET expected_b == program[index + 1]
                    after == for_three_bits(0, node, index, expected_b, Tail(queue), min_a,
                                            evaluations)
                    trials == {[trial |-> Trial(t, node.successor_a),
                                b |-> apply_cycle(Trial(t, node.successor_a)),
                                expected_b |-> expected_b,
                                index |-> index] : t \in 0..7}
                IN  /\ queue' = after.queue
                    /\ min_a' = after.min_a
                    /\ checked' = trials
                    /\ full_matches' = full_matches \cup
                         {e.trial : e \in {x \in trials : x.b = x.expected_b /\ x.index = 0}}
                    /\ evaluations' = after.calls
                    /\ UNCHANGED solve_pc
    /\ UNCHANGED <<program, computer_vars, other_vars>>

\* the queue is empty: solve_part2 returns min_a
SolveReturn ==
    /\ solve_pc = "loop"
    /\ queue = <<>>
    /\ solve_pc' = "done"
    /\ UNCHANGED <<program, computer_vars, queue, min_a, checked, full_matches, evaluations,
                   other_vars>>

NextSolve == SolvePop \/ SolveReturn

SpecSolve == InitSolve /\ [][NextSolve]_vars

----------------------------------------------------------------------------
(* Properties of the engine, checked under Spec *)

IsPrefix(s, t) == Len(s) <= Len(t) /\ SubSeq(t, 1, Len(s)) = s

\* a tick has been taken, and it fetched an opcode
Ticked == tick_result # "None" /\ prev.instruction_pointer < Len(program)
\* the byte that tick fetched, and the byte in its operand slot
LastOpcode == program[prev.instruction_pointer + 1]
LastHasOperand == prev.instruction_pointer + 1 < Len(program)
LastOperand == program[prev.instruction_pointer + 2]
\* the last tick left registers, instruction pointer and output alone
LastChangedNothing ==
    /\ registers = prev.registers
    /\ instruction_pointer = prev.instruction_pointer
    /\ output = prev.output

Halted == tick_result = "Ok(false)"
RunsClean == tick_result \in {"None", "Ok(true)", "Ok(false)"}

\* C3: from A = 117440, B = C = 0, IP = 0 the program [0,3,5,4,3,0] runs
\* without error, emits a prefix of itself at every step, and once tick
\* returns false the output is the program, rendered "0,3,5,4,3,0".
C3_QuineRoundTrip ==
    (program = QuineProgram /\ start = <<QuineA, 0, 0>>) =>
        /\ RunsClean
        /\ IsPrefix(output, QuineProgram)
        /\ Halted => (output = QuineProgram /\ prepare_output(output) = "0,3,5,4,3,0")

C3_Witness ==
    /\ program = QuineProgram /\ start = <<QuineA, 0, 0>>
    /\ Halted /\ Len(output) = 6 /\ registers[1] = 0

ExampleOutput == <<4, 6, 3, 5, 6, 3, 5, 2, 1, 0>>

\* C4: from A = 729, B = C = 0 the program [0,1,5,4,3,0] (A >>= 1; output A;
\* jump to 0 while A != 0) runs without error and at halt its output, joined
\* with commas, is "4,6,3,5,6,3,5,2,1,0".
C4_ExampleOutput ==
    (program = ExampleProgram /\ start = <<ExampleA, 0, 0>>) =>
        /\ RunsClean
        /\ IsPrefix(output, ExampleOutput)
        /\ Halted => prepare_output(output) = "4,6,3,5,6,3,5,2,1,0"

C4_Witness ==
    /\ program = ExampleProgram /\ start = <<ExampleA, 0, 0>>
    /\ Halted /\ Len(output) = 10

\* C9 (as claimed): a tick whose opcode is the last byte of the program, so
\* that there is no operand, returns an error and changes nothing, for each
\* of the 8 opcodes.
C9_MissingOperandFails ==
    (Ticked /\ ~LastHasOperand /\ LastOpcode \in 0..7) =>
        /\ tick_result \in ErrorMessages
        /\ LastChangedNothing

\* C10: a tick of Adv, Bst, Out, Bdv or Cdv on operand 7 returns the
\* reserved-register error and changes nothing, whatever the registers hold;
\* Bxl and Jnz take 7 as a literal: Bxl xors 7 into B, Jnz jumps to index 7
\* when A != 0, and both return Ok(true).
C10_ComboSevenFails ==
    (Ticked /\ LastHasOperand /\ LastOperand = 7) =>
        /\ LastOpcode \in {Adv, Bst, Out, Bdv, Cdv} =>
              (tick_result = Reserved7 /\ LastChangedNothing)
        /\ LastOpcode = Bxl =>
              (tick_result = "Ok(true)" /\ registers[2] = BitXor(prev.registers[2], 7))
        /\ LastOpcode = Jnz =>
              /\ tick_result = "Ok(true)"
              /\ prev.registers[1] # 0 => instruction_pointer = 7

C10_Witness ==
    /\ Ticked /\ LastHasOperand /\ LastOperand = 7
    /\ LastOpcode = Out
    /\ prev.registers # <<0, 0, 0>>
    /\ tick_result = Reserved7

\* C11: a tick that fetches a byte outside 0..=7 as its opcode returns the
\* 'invalid instruction' error and leaves registers, IP and output alone.
C11_InvalidOpcodeFails ==
    (Ticked /\ LastOpcode \notin 0..7) =>
        (tick_result = InvalidInstruction /\ LastChangedNothing)

C11_Witness ==
    /\ Ticked /\ LastOpcode = 8
    /\ prev.instruction_pointer > 0
    /\ tick_result = InvalidInstruction

\* C12: whenever tick returns an error, registers, IP and output are what
\* they were before the tick; the error names its cause (no operand in the
\* program, operand above 0b111, combo operand 7, opcode outside 0..=7).
C12_ErrorChangesNothing ==
    tick_result \in ErrorMessages =>
        /\ Ticked
        /\ LastChangedNothing
        /\ tick_result = InvalidInstruction <=> LastOpcode \notin 0..7
        /\ tick_result = NoOperand => ~LastHasOperand
        /\ tick_result = OperandRange => (LastHasOperand /\ LastOperand > 7)
        /\ tick_result = Reserved7 => (LastHasOperand /\ LastOperand = 7)

C12_Witness ==
    /\ tick_result = OperandRange
    /\ prev.instruction_pointer = 1
    /\ prev.registers # <<0, 0, 0>>

\* C13: a tick of Jnz leaves registers and output alone; with A = 0 it moves
\* IP to IP + 2, and with A != 0 and an operand at IP + 1 it moves IP to that
\* operand's value, wherever the Jnz stands.
C13_JnzNextIp ==
    (Ticked /\ LastOpcode = Jnz) =>
        /\ registers = prev.registers
        /\ output = prev.output
        /\ prev.registers[1] = 0 =>
              (tick_result = "Ok(true)"
                 /\ instruction_pointer = prev.instruction_pointer + 2)
        /\ (prev.registers[1] # 0 /\ LastHasOperand) =>
              (tick_result = "Ok(true)" /\ instruction_pointer = LastOperand)

C13_Witness ==
    /\ Ticked /\ LastOpcode = Jnz
    /\ prev.instruction_pointer = 2
    /\ prev.registers[1] # 0
    /\ instruction_pointer = 7

\* the value of the last tick's combo operand (operand in 0..6)
LastCombo ==
    IF LastOperand \in 0..3 THEN LastOperand ELSE prev.registers[LastOperand - 3]

\* the register (1-based) a shift instruction stores to
ShiftTarget == CASE LastOpcode = Adv -> 1 [] LastOpcode = Bdv -> 2 [] LastOpcode = Cdv -> 3

\* a / 2^k truncated; every register value of the model is below 2^31
Quotient(a, k) == IF k >= 31 THEN 0 ELSE a \div (2^k)

\* C14 (as claimed): a tick of Adv, Bdv or Cdv with combo value k, of any
\* size, succeeds and stores the truncated quotient A / 2^k.
C14_ShiftIsDivision ==
    (Ticked /\ LastOpcode \in {Adv, Bdv, Cdv} /\ LastHasOperand /\ LastOperand \in 0..6) =>
        /\ tick_result = "Ok(true)"
        /\ registers[ShiftTarget] = Quotient(prev.registers[1], LastCombo)

C16_HaltAbsorbing ==
    /\ [](tick_result # "None" =>
            /\ Halted <=> prev.instruction_pointer >= Len(program)
            /\ Halted => LastChangedNothing)
    /\ [][Halted => (Halted' /\ UNCHANGED <<registers, instruction_pointer, output>>)]_vars

C16_Witness ==
    /\ Halted
    /\ prev.instruction_pointer >= Len(program)
    /\ output # <<>>

\* C17: every tick leaves the old output as a prefix of the new one; a
\* successful Out appends exactly one value, the combo value mod 8, and any
\* other tick (another instruction, a halt, an error) leaves it as it was.
C17_OutputAppendOnly ==
    tick_result # "None" =>
        /\ IsPrefix(prev.output, output)
        /\ IF Ticked /\ LastOpcode = Out /\ tick_result = "Ok(true)"
           THEN output = Append(prev.output, LastCombo % 8)
           ELSE output = prev.output
        /\ (Ticked /\ LastOpcode = Out /\ LastHasOperand /\ LastOperand \in 0..6) =>
              tick_result = "Ok(true)"

C17_Witness ==
    /\ Ticked /\ LastOpcode = Out /\ LastHasOperand /\ LastOperand = 4
    /\ Len(prev.output) >= 2
    /\ output = Append(prev.output, prev.registers[1] % 8)
    /\ prev.registers[1] > 7

\* C20: IP is odd only after a Jnz with an odd operand was taken with
\* A != 0; a tick that turns an even IP into an odd one is such a Jnz, and
\* the odd IP is its operand.
C20_EvenUnlessOddJump ==
    /\ instruction_pointer % 2 = 1 => odd_jump_taken
    /\ (tick_result # "None" /\ instruction_pointer % 2 = 1
          /\ prev.instruction_pointer % 2 = 0) =>
            /\ Ticked /\ LastOpcode = Jnz /\ prev.registers[1] # 0
            /\ LastHasOperand /\ LastOperand % 2 = 1
            /\ instruction_pointer = LastOperand

C20_Witness ==
    /\ instruction_pointer % 2 = 1
    /\ instruction_pointer < Len(program)
    /\ odd_jump_taken
    /\ prev.instruction_pointer = 2

----------------------------------------------------------------------------
(* Properties of solve_part2, checked under SpecSolve *)

SetMin(S) == CHOOSE x \in S : \A y \in S : x <= y

\* the opcode positions (1-based) of a program
OpcodeSlots(p) == {i \in 1..Len(p) : i % 2 = 1}

\* the loop shape solve_part2 assumes: the program ends in `jump to 0`, and
\* before that it has no jump, exactly one output and exactly one A >>= 3
LoopShaped(p) ==
    /\ Len(p) >= 6 /\ Len(p) % 2 = 0
    /\ \A i \in 1..Len(p) : p[i] \in 0..7
    /\ p[Len(p) - 1] = Jnz /\ p[Len(p)] = 0
    /\ \A i \in OpcodeSlots(p) : p[i] = Jnz => i = Len(p) - 1
    /\ Cardinality({i \in OpcodeSlots(p) : p[i] = Out}) = 1
    /\ Cardinality({i \in OpcodeSlots(p) : p[i] = Adv}) = 1
    /\ \A i \in OpcodeSlots(p) : p[i] = Adv => p[i + 1] = 3
    /\ \A i \in OpcodeSlots(p) : p[i] \in {Adv, Bst, Out, Bdv, Cdv} => p[i + 1] # 7

\* the brute-force search: the least A in 0..MaxBruteA that makes p a quine
BruteForce(p) ==
    LET found == {a \in 0..MaxBruteA : IsQuine(p, a)} IN
    IF found = {} THEN None ELSE Some(SetMin(found))

\* C1 (as claimed): on the program [0,3,5,4,3,0] solve_part2 returns
\* Some(117440), and no smaller A makes that program output itself.
C1_SolvesExample ==
    (solve_pc = "done" /\ program = QuineProgram) =>
        /\ min_a = Some(QuineA)
        /\ \A a \in 0..(QuineA - 1) : ~IsQuine(QuineProgram, a)

\* C5 (as claimed): when some trial matched at program index 0, solve_part2
\* returns Some of the least such trial.
C5_RunningMinimum ==
    (solve_pc = "done" /\ full_matches # {}) => min_a = Some(SetMin(full_matches))

\* C6 (as claimed): solve_part2 never aborts, and it returns None exactly
\* when no trial reached a full-length match.
C6_EndsNormally ==
    /\ solve_pc # "panic"
    /\ solve_pc = "done" => (min_a = None <=> full_matches = {})

\* C7 (as claimed): on a program of the assumed loop shape solve_part2
\* returns what the brute-force search over A = 0, 1, 2, ... returns.
C7_AgreesWithBruteForce ==
    (solve_pc = "done" /\ LoopShaped(program)) => min_a = BruteForce(program)

\* C8 (as claimed): on a program of the assumed loop shape, the digit
\* solve_part2 compares with the expected byte is the first value the engine
\* emits in one pass of the loop body from A = trial, B = C = 0, IP = 0.
C8_DigitFromEngine ==
    LoopShaped(program) =>
        \A e \in checked :
            \A out \in one_pass(Fresh(program, e.trial), Len(program)) :
                out # <<>> /\ out[1] = e.b

----------------------------------------------------------------------------
(* tests::test_apply_cycle: the engine on the program apply_cycle was      *)
(* decompiled from                                                         *)

\* the program of apply_cycle's doc comment, byte for byte: B = A & 7 is
\* Bst with the combo operand 4, B ^= 2 is Bxl 2, C = A >> B is Cdv with the
\* combo operand 5, B ^= C is Bxc (whose operand byte x is ignored), B ^= 3
\* is Bxl 3, output B is Out with the combo operand 5, A >>= 3 is Adv 3, and
\* the loop is Jnz 0
AuthorProgram(x) ==
    <<Bst, 4, Bxl, 2, Cdv, 5, Bxc, x, Bxl, 3, Out, 5, Adv, 3, Jnz, 0>>

\* the last value of `for a in 0..=0b111_111`
MaxCycleA == 63

\* the number of ticks the test gives the engine before it reads output[0]
CycleTicks == 6

\* the test's reset of the computer: output cleared, registers = [a, 0, 0],
\* instruction_pointer = 0
InitCycle ==
    /\ \E x \in 0..7 : program = AuthorProgram(x)
    /\ \E a \in 0..MaxCycleA : registers = <<a, 0, 0>>
    /\ instruction_pointer = 0
    /\ output = <<>>
    /\ tick_result = "None"
    /\ prev = [registers |-> registers, instruction_pointer |-> 0, output |-> <<>>]
    /\ start = registers
    /\ odd_jump_taken = FALSE
    /\ SolverIdle
    /\ OthersIdle

SpecCycle == InitCycle /\ [][Next]_vars

\* the engine has taken exactly CycleTicks ticks since the reset: the first
\* pass is straight-line code, two bytes per tick, and A is shifted only by
\* the seventh tick
AfterCycleTicks ==
    /\ instruction_pointer = 2 * CycleTicks
    /\ Len(output) = 1
    /\ registers[1] = start[1]
    /\ tick_result = "Ok(true)"

\* C21: for every a in 0..=63, apply_cycle(a) is the first value the engine
\* has emitted after exactly 6 ticks on the author's program from registers
\* [a, 0, 0], IP = 0 and empty output.
C21_ApplyCycleIsEngine ==
    AfterCycleTicks => output[1] = apply_cycle(start[1])

C21_Witness ==
    /\ AfterCycleTicks
    /\ start = <<MaxCycleA, 0, 0>>
    /\ output = <<apply_cycle(MaxCycleA)>>
    /\ registers[3] = 1

----------------------------------------------------------------------------
(* tests::example_apply_cycle_manual: apply_cycle chained by hand *)

\* no computer is being driven
ComputerIdle ==
    /\ program = <<>>
    /\ registers = <<0, 0, 0>>
    /\ instruction_pointer = 0
    /\ output = <<>>
    /\ tick_result = "None"
    /\ prev = [registers |-> registers, instruction_pointer |-> 0, output |-> <<>>]
    /\ start = registers
    /\ odd_jump_taken = FALSE

\* `let mut a = expect; let mut outputs = Vec::new();` for the test's value
\* and for every value of test_apply_cycle
InitManual ==
    /\ expect \in {QuineA} \cup 0..MaxCycleA
    /\ manual_a = expect
    /\ outputs = <<>>
    /\ ComputerIdle
    /\ SolverIdle
    /\ Day09Idle
    /\ Day07Idle
    /\ Day14Idle

\* one iteration of `while a != 0`
ManualStep ==
    /\ manual_a # 0
    /\ outputs' = Append(outputs, apply_cycle(manual_a))
    /\ manual_a' = Shr(manual_a, 3)
    /\ UNCHANGED <<expect, program, computer_vars, solver_vars, day09_vars, day07_vars,
                   day14_vars>>

NextManual == ManualStep

SpecManual == InitManual /\ [][NextManual]_vars

\* C22 (as claimed): from a = 117440, recording apply_cycle(a) and shifting
\* a right by 3 while a != 0 yields exactly [0, 3, 5, 4, 3, 0].
C22_ManualChain ==
    (expect = QuineA /\ manual_a = 0) => outputs = <<0, 3, 5, 4, 3, 0>>

----------------------------------------------------------------------------
(* The registers a tick writes, checked under Spec *)

\* the registers (1 = A, 2 = B, 3 = C) whose value the last tick changed
Written == {i \in 1..3 : registers[i] # prev.registers[i]}

\* the register an instruction stores into, by opcode: none for Jnz and Out
Target(opcode) ==
    IF opcode = Adv THEN {1}
    ELSE IF opcode \in {Bxl, Bst, Bxc, Bdv} THEN {2}
    ELSE IF opcode = Cdv THEN {3}
    ELSE {}

\* C23: a successful tick never modifies the program and modifies at most
\* one register, the target of its instruction: Adv only A; Bxl, Bst, Bxc and
\* Bdv only B; Cdv only C; Jnz and Out none; the halting tick none.
C23_WritesOnlyTarget ==
    /\ [](tick_result = "Ok(true)" => Written \subseteq Target(LastOpcode))
    /\ [](tick_result = "Ok(false)" => Written = {})
    /\ [][program' = program]_vars

\* Bdv and Cdv have each stored a quotient that differs from A, and A kept
\* its value
C23_Witness ==
    /\ tick_result = "Ok(true)"
    /\ LastOpcode \in {Bdv, Cdv}
    /\ Written = Target(LastOpcode)
    /\ Written # {}
    /\ registers[1] = prev.registers[1]
    /\ registers[1] = QuineA

----------------------------------------------------------------------------
(* The nodes of solve_part2's queue, checked under SpecSolve *)

\* the digits apply_cycle gives for a, a >> 3, ..., a >> 3 * (r - 1) are the
\* last r bytes of the program
MatchesTail(node) ==
    \A j \in 0..(node.right_index - 1) :
        apply_cycle(Shr(node.successor_a, 3 * j))
            = program[Len(program) - node.right_index + j + 1]

\* a node as the loop body builds it
WellFormedNode(node) ==
    /\ 1 <= node.right_index
    /\ node.right_index <= Len(program) - 1
    /\ node.successor_a < 8^node.right_index
    /\ MatchesTail(node)

\* the nodes the step has pushed: the pop took the head, the pushes follow
\* what was left
Pushed(before, after) == SubSeq(after, Len(before), Len(after))

\* the trials of the last pop that matched their expected byte
Matched == {e \in checked : e.b = e.expected_b}

\* C24: every node in the queue other than the initial (0, 0) has
\* 1 <= right_index <= len - 1 and successor_a < 8^right_index, and its
\* digits match the last right_index bytes of the program; a node is pushed
\* only for a chunk whose digit matched the expected byte; and a pop without
\* a matching chunk pushes nothing and leaves the loop running on the nodes
\* still queued.
C24_QueuedNodes ==
    /\ [](\A i \in 1..Len(queue) :
            queue[i] = SearchNode(0, 0) \/ WellFormedNode(queue[i]))
    /\ [][solve_pc' = "loop" =>
            /\ \A i \in 1..Len(Pushed(queue, queue')) :
                 \E e \in Matched' :
                    /\ e.index # 0
                    /\ Pushed(queue, queue')[i] =
                         SearchNode(Head(queue).right_index + 1, e.trial)
            /\ Matched' = {} => queue' = Tail(queue)]_vars

\* a pop found no matching chunk while nodes two digits deep are queued
C24_Witness ==
    /\ solve_pc = "loop"
    /\ checked # {}
    /\ Matched = {}
    /\ queue # <<>>
    /\ \E i \in 1..Len(queue) : queue[i].right_index >= 2

----------------------------------------------------------------------------
(* Termination of solve_part2 *)

\* the guard of SolvePop; a pop always changes the queue and evaluations, so
\* this is ENABLED <<SolvePop>>_vars
PopEnabled == solve_pc = "loop" /\ queue # <<>>

\* solve_part2 is one sequential loop: as long as a step of it is possible
\* the thread that runs it takes that step.  The second conjunct is
\* WF_vars(SolvePop) with ENABLED <<SolvePop>>_vars written out as PopEnabled.
SolveFairness ==
    /\ WF_vars(SolveReturn)
    /\ []<>(~PopEnabled) \/ []<><<SolvePop>>_vars

SpecSolveFair == InitSolve /\ [][NextSolve]_vars /\ SolveFairness

\* the queue holds its nodes in non-decreasing right_index order
QueueSorted ==
    \A i, j \in 1..Len(queue) : i < j => queue[i].right_index <= queue[j].right_index

\* C25: on a non-empty program of length n solve_part2 terminates: a step
\* removes the head of the queue and appends behind what was left, the
\* right_index of successive heads never decreases, no node with
\* right_index >= n is ever in the queue, and the queue eventually is
\* empty with the loop left normally.
C25_Terminates ==
    /\ [](Len(program) > 0 =>
            /\ QueueSorted
            /\ \A i \in 1..Len(queue) : queue[i].right_index < Len(program)
            /\ solve_pc # "panic")
    /\ [][(Len(program) > 0 /\ queue # <<>>) =>
            /\ IsPrefix(Tail(queue), queue')
            /\ queue' # <<>> => Head(queue).right_index <= Head(queue').right_index]_vars
    /\ (Len(program) > 0) ~> (solve_pc = "done" /\ queue = <<>>)

\* the search on [0,3,5,4,3,0] has popped its 19 nodes and returned
C25_Witness ==
    /\ program = QuineProgram
    /\ solve_pc = "done"
    /\ queue = <<>>
    /\ evaluations = 8 * 19

----------------------------------------------------------------------------
(* The example program [0,3,5,4,3,0] draining A, three bits per pass *)

\* largest initial A enumerated exhaustively
MaxDrainA == 600

\* the runs of tests::example's program from every A enumerated, B = C = 0
InitDrain ==
    /\ program = QuineProgram
    /\ \E a \in (0..MaxDrainA) \cup {QuineA} : registers = <<a, 0, 0>>
    /\ instruction_pointer = 0
    /\ output = <<>>
    /\ tick_result = "None"
    /\ prev = [registers |-> registers, instruction_pointer |-> 0, output |-> <<>>]
    /\ start = registers
    /\ odd_jump_taken = FALSE
    /\ SolverIdle
    /\ OthersIdle

\* the driving loop `while computer.tick()? {}` calls tick again as long as
\* the last call returned true
SpecDrain == InitDrain /\ [][Next]_vars /\ WF_vars(Tick)

\* number of octal digits of a (none for 0)
RECURSIVE OctalDigits(_)
OctalDigits(a) == IF a = 0 THEN 0 ELSE 1 + OctalDigits(a \div 8)

\* octal digit i of a, digit 0 being the lowest
OctalDigit(a, i) == (a \div 8^i) % 8

Max(x, y) == IF x >= y THEN x ELSE y

\* C26: on [0,3,5,4,3,0] from any A (B = C = 0) the engine runs without
\* error, tick eventually returns false, and at halt A = 0 and the output
\* holds max(1, d) values, d the number of octal digits of the initial A,
\* the i-th being octal digit i of the initial A (digit 0 the lowest).
C26_DrainsOctalDigits ==
    /\ [](RunsClean)
    /\ [](Halted =>
            /\ registers[1] = 0
            /\ Len(output) = Max(1, OctalDigits(start[1]))
            /\ \A i \in 1..Len(output) : output[i] = OctalDigit(start[1], i))
    /\ <>Halted

\* the run from A = 0o1130 (600) has halted after four passes
C26_Witness ==
    /\ start = <<MaxDrainA, 0, 0>>
    /\ Halted
    /\ registers[1] = 0
    /\ Len(output) = OctalDigits(MaxDrainA)
    /\ Len(output) >= 4
    /\ output[1] # 0

----------------------------------------------------------------------------
(* Day 9 (src/day09/src/lib.rs): the disk map and its two compactions.     *)
(* The VecList is a sequence, front first; an Index is the position of its *)
(* entry, 0 once the entry has been removed from the list.                 *)

\* enum Block: Free is -1, File(id) is id
Free == 0 - 1
File(id) == id
is_file(item) == item # Free
is_free(item) == item = Free

\* FilesystemEntry::new
FilesystemEntry(item, size) == [item |-> item, size |-> size]

\* split_at without `self.size -= size`
split_at_keeps_size(entry, size) ==
    <<FilesystemEntry(entry.item, size), entry>>

\* FilesystemEntry::split_at: the front `size` of the entry, and the rest
split_at(entry, size) ==
    <<FilesystemEntry(entry.item, size), [entry EXCEPT !.size = entry.size - size]>>

\* fs_from_str on a string of digits: entries alternate File / Free, the
\* files numbered from 0 in order of appearance
RECURSIVE fs_from(_, _, _, _)
fs_from(digits, is_file_next, file_id, built) ==
    IF digits = <<>> THEN built
    ELSE IF is_file_next
         THEN fs_from(Tail(digits), FALSE, file_id + 1,
                      Append(built, FilesystemEntry(File(file_id), Head(digits))))
         ELSE fs_from(Tail(digits), TRUE, file_id,
                      Append(built, FilesystemEntry(Free, Head(digits))))

fs_from_str(digits) == fs_from(digits, TRUE, 0, <<>>)

\* VecList::insert_before(position, entry) and VecList::pop_back
insert_before(list, position, entry) ==
    SubSeq(list, 1, position - 1) \o <<entry>> \o SubSeq(list, position, Len(list))
pop_back(list) == SubSeq(list, 1, Len(list) - 1)

\* longest disk map enumerated exhaustively, and the largest digit in it
MaxMapLen == 5
MaxDigit == 3

RECURSIVE MapsOfLen(_)
MapsOfLen(n) ==
    IF n = 0 THEN {<<>>}
    ELSE {Append(m, d) : m \in MapsOfLen(n - 1), d \in 0..MaxDigit}

\* the disk maps of the tests
ShortExample == <<1, 2, 3, 4, 5>>
LongExample == <<2, 3, 3, 3, 1, 3, 3, 1, 2, 1, 4, 1, 4, 1, 3, 1, 4, 0, 2>>

DiskMaps == UNION {MapsOfLen(n) : n \in 0..MaxMapLen} \cup {ShortExample, LongExample}

\* part1 / part2 after fs_from_str, before the compaction is called
Init09 ==
    /\ disk_map \in DiskMaps
    /\ fs = fs_from_str(disk_map)
    /\ cursor = 0
    /\ lowest_checked_file_id = NoneChecked
    /\ pc09 = "built"
    /\ considered = <<>>
    /\ program = <<>>
    /\ registers = <<0, 0, 0>>
    /\ instruction_pointer = 0
    /\ output = <<>>
    /\ tick_result = "None"
    /\ prev = [registers |-> registers, instruction_pointer |-> 0, output |-> <<>>]
    /\ start = registers
    /\ odd_jump_taken = FALSE
    /\ SolverIdle
    /\ ManualIdle
    /\ Day07Idle
    /\ Day14Idle

\* compact_filesystem up to its loop: `fs.front_index().ok_or(NoSolution)?`
CompactBegin ==
    /\ pc09 = "built"
    /\ IF fs = <<>>
       THEN pc09' = "Err(NoSolution)" /\ UNCHANGED cursor
       ELSE pc09' = "compact" /\ cursor' = 1
    /\ UNCHANGED <<disk_map, fs, lowest_checked_file_id, considered>>
    /\ UNCHANGED <<program, computer_vars, solver_vars, manual_vars, day07_vars, day14_vars>>

\* the end of one iteration that moved a file: `if advance { ... }`
Advanced(list, position, advance) ==
    IF ~advance THEN [fs |-> list, cursor |-> position, pc09 |-> "compact"]
    ELSE IF position < Len(list)
         THEN [fs |-> list, cursor |-> position + 1, pc09 |-> "compact"]
         ELSE [fs |-> list, cursor |-> position, pc09 |-> "cleanup"]

\* one iteration of compact_filesystem's loop: the list and cursor it leaves,
\* and whether the loop goes on ("compact") or was left ("cleanup")
compact_iteration(list, position) ==
    IF position = 0
    THEN [fs |-> list, cursor |-> position, pc09 |-> "cleanup"]
    ELSE IF is_file(list[position].item)
    THEN IF position < Len(list)
         THEN [fs |-> list, cursor |-> position + 1, pc09 |-> "compact"]
         ELSE [fs |-> list, cursor |-> position, pc09 |-> "cleanup"]
    ELSE LET file == list[Len(list)]
             popped == pop_back(list)
         IN  IF is_free(file.item)
             THEN [fs |-> popped,
                   cursor |-> IF position = Len(list) THEN 0 ELSE position,
                   pc09 |-> "compact"]
             ELSE LET advance == file.size >= popped[position].size IN
                  IF file.size < popped[position].size
                  THEN Advanced(
                         insert_before(
                            [popped EXCEPT ![position].size = @ - file.size],
                            position, file),
                         position + 1, advance)
                  ELSE IF file.size = popped[position].size
                  THEN Advanced([popped EXCEPT ![position] = file], position, advance)
                  ELSE LET parts == split_at(file, popped[position].size) IN
                       Advanced(Append([popped EXCEPT ![position] = parts[1]], parts[2]),
                                position, advance)

CompactLoop ==
    /\ pc09 = "compact"
    /\ LET after == compact_iteration(fs, cursor) IN
        /\ fs' = after.fs
        /\ cursor' = after.cursor
        /\ pc09' = after.pc09
    /\ UNCHANGED <<disk_map, lowest_checked_file_id, considered>>
    /\ UNCHANGED <<program, computer_vars, solver_vars, manual_vars, day07_vars, day14_vars>>

\* one iteration of `while let Some(back) = fs.back()`, then the
\* debug_assert! that only files are left: a debug build panics where it
\* fails, a release build returns Ok
CompactCleanup ==
    /\ pc09 = "cleanup"
    /\ IF fs # <<>> /\ is_free(fs[Len(fs)].item)
       THEN fs' = pop_back(fs) /\ UNCHANGED pc09
       ELSE /\ UNCHANGED fs
            /\ IF \A i \in 1..Len(fs) : is_file(fs[i].item)
               THEN pc09' = "compacted"
               ELSE pc09' \in {"panic", "compacted"}
    /\ UNCHANGED <<disk_map, cursor, lowest_checked_file_id, considered>>
    /\ UNCHANGED <<program, computer_vars, solver_vars, manual_vars, day07_vars, day14_vars>>

\* remove_file never looking to the left of the file
leftmost_free_none(list, position) == position

\* remove_file's two scans: the ends of the run of Free entries around position
RECURSIVE leftmost_free(_, _)
leftmost_free(list, position) ==
    IF position > 1 /\ is_free(list[position - 1].item)
    THEN leftmost_free(list, position - 1)
    ELSE position

RECURSIVE rightmost_free(_, _)
rightmost_free(list, position) ==
    IF position < Len(list) /\ is_free(list[position + 1].item)
    THEN rightmost_free(list, position + 1)
    ELSE position

\* remove_file's third loop: the sizes of the entries from..to, added up
RECURSIVE total_free_space(_, _, _)
total_free_space(list, from, to) ==
    IF from > to THEN 0 ELSE list[from].size + total_free_space(list, from + 1, to)

\* remove_file: the file taken out, the list with one consolidated Free entry
\* in place of the file and of the Free entries next to it, and the
\* position of that entry
remove_file(list, position) ==
    LET out == FilesystemEntry(list[position].item, list[position].size)
        freed == [list EXCEPT ![position].item = Free]
        left == leftmost_free(freed, position)
        right == rightmost_free(freed, position)
        consolidated_free_space ==
            FilesystemEntry(Free, total_free_space(freed, left, right))
    IN  [out |-> out,
         fs |-> SubSeq(freed, 1, left - 1) \o <<consolidated_free_space>>
                   \o SubSeq(freed, right + 1, Len(freed)),
         idx |-> left]

\* the macro cursor_continue!: step to the previous entry, or leave the loop
cursor_continue(list, position, lowest, seen) ==
    IF position > 1
    THEN [fs |-> list, cursor |-> position - 1, lowest_checked_file_id |-> lowest,
          considered |-> seen, pc09 |-> "no_fragments"]
    ELSE [fs |-> list, cursor |-> position, lowest_checked_file_id |-> lowest,
          considered |-> seen, pc09 |-> "cleanup_no_fragments"]

\* the Free entries a scan accepts for a file of the given size.  The scan
\* stops accepting at the entry whose index equals `cursor`; before
\* remove_file that is the file's own position (self_at), after it the index
\* is stale and equals no index of the list (self_at = 0).
fitting(list, self_at, size) ==
    {idx \in 1..Len(list) :
        /\ (self_at = 0 \/ idx < self_at)
        /\ is_free(list[idx].item)
        /\ list[idx].size >= size}

\* one iteration of compact_filesystem_no_fragments' loop
no_fragments_iteration(list, position, lowest, seen) ==
    LET entry == list[position] IN
    IF is_free(entry.item) THEN cursor_continue(list, position, lowest, seen)
    ELSE IF entry.item >= lowest THEN cursor_continue(list, position, lowest, seen)
    ELSE LET checked_now == Append(seen, entry.item) IN
         IF fitting(list, position, entry.size) = {}
         THEN cursor_continue(list, position, entry.item, checked_now)
         ELSE LET removed == remove_file(list, position)
                  found == fitting(removed.fs, 0, removed.out.size)
              IN  IF found = {}
                  THEN [fs |-> removed.fs, cursor |-> position,
                        lowest_checked_file_id |-> entry.item,
                        considered |-> checked_now, pc09 |-> "panic"]
                  ELSE LET free_idx == CHOOSE i \in found : \A j \in found : i <= j
                           less == removed.out.size < removed.fs[free_idx].size
                           moved ==
                               IF less
                               THEN insert_before(
                                      [removed.fs EXCEPT
                                          ![free_idx].size = @ - removed.out.size],
                                      free_idx, removed.out)
                               ELSE [removed.fs EXCEPT ![free_idx] = removed.out]
                           free_cursor ==
                               IF less /\ free_idx <= removed.idx
                               THEN removed.idx + 1 ELSE removed.idx
                       IN  IF free_cursor > 1
                           THEN [fs |-> moved, cursor |-> free_cursor - 1,
                                 lowest_checked_file_id |-> entry.item,
                                 considered |-> checked_now, pc09 |-> "no_fragments"]
                           ELSE [fs |-> moved, cursor |-> free_cursor,
                                 lowest_checked_file_id |-> entry.item,
                                 considered |-> checked_now,
                                 pc09 |-> "cleanup_no_fragments"]

\* compact_filesystem_no_fragments up to its loop
NoFragmentsBegin ==
    /\ pc09 = "built"
    /\ IF fs = <<>>
       THEN pc09' = "Err(NoSolution)" /\ UNCHANGED cursor
       ELSE pc09' = "no_fragments" /\ cursor' = Len(fs)
    /\ UNCHANGED <<disk_map, fs, lowest_checked_file_id, considered>>
    /\ UNCHANGED <<program, computer_vars, solver_vars, manual_vars, day07_vars, day14_vars>>

NoFragmentsLoop ==
    /\ pc09 = "no_fragments"
    /\ LET after == no_fragments_iteration(fs, cursor, lowest_checked_file_id, considered) IN
        /\ fs' = after.fs
        /\ cursor' = after.cursor
        /\ lowest_checked_file_id' = after.lowest_checked_file_id
        /\ considered' = after.considered
        /\ pc09' = after.pc09
    /\ UNCHANGED disk_map
    /\ UNCHANGED <<program, computer_vars, solver_vars, manual_vars, day07_vars, day14_vars>>

\* one iteration of `while let Some(back) = fs.back()`
NoFragmentsCleanup ==
    /\ pc09 = "cleanup_no_fragments"
    /\ IF fs # <<>> /\ is_free(fs[Len(fs)].item)
       THEN fs' = pop_back(fs) /\ UNCHANGED pc09
       ELSE UNCHANGED fs /\ pc09' = "compacted_no_fragments"
    /\ UNCHANGED <<disk_map, cursor, lowest_checked_file_id, considered>>
    /\ UNCHANGED <<program, computer_vars, solver_vars, manual_vars, day07_vars, day14_vars>>

Next09 ==
    \/ CompactBegin
    \/ CompactLoop
    \/ CompactCleanup
    \/ NoFragmentsBegin
    \/ NoFragmentsLoop
    \/ NoFragmentsCleanup

Spec09 == Init09 /\ [][Next09]_vars

----------------------------------------------------------------------------
(* Properties of compact_filesystem, checked under Spec09 *)

\* the block layout of a list, as fs_to_str draws it: one item per block
RECURSIVE Blocks(_)
Blocks(list) ==
    IF list = <<>> THEN <<>>
    ELSE [i \in 1..Head(list).size |-> Head(list).item] \o Blocks(Tail(list))

\* the blocks (positions) of a layout that are free, and those holding a file
FreeBlocks(layout) == {i \in 1..Len(layout) : is_free(layout[i])}
FileBlocks(layout) == {i \in 1..Len(layout) : is_file(layout[i])}

SetMax(S) == CHOOSE x \in S : \A y \in S : x >= y

\* some free block precedes a file block
Fragmented(layout) ==
    \E i \in FreeBlocks(layout) : \E j \in FileBlocks(layout) : i < j

\* the reference compaction: move the last file block into the leftmost free
\* block, until no free block precedes a file block
RECURSIVE Reference(_)
Reference(layout) ==
    IF ~Fragmented(layout) THEN layout
    ELSE LET to == SetMin(FreeBlocks(layout))
             from == SetMax(FileBlocks(layout))
         IN  Reference([layout EXCEPT ![to] = layout[from], ![from] = Free])

\* a layout without the free blocks at its end
RECURSIVE Trimmed(_)
Trimmed(layout) ==
    IF layout # <<>> /\ is_free(layout[Len(layout)])
    THEN Trimmed(SubSeq(layout, 1, Len(layout) - 1))
    ELSE layout

\* number of blocks of a layout that hold file id
BlockCount(layout, id) == Cardinality({i \in 1..Len(layout) : layout[i] = id})

\* compact_filesystem has returned, Ok or Err
Part1Returned ==
    \/ pc09 = "compacted"
    \/ pc09 = "Err(NoSolution)" /\ considered = <<>> /\ cursor = 0

\* the entries from the cursor to the back: what the loop has yet to pass
Remaining == IF cursor = 0 THEN 0 ELSE Len(fs) - cursor + 1

\* C27: on every filesystem fs_from_str builds from digits, compact_filesystem
\* terminates (every iteration of its loop that is followed by another
\* shortens what is left behind the cursor, every iteration of the cleanup
\* shortens the list) without panic, and when it has returned the list has no
\* Free entry, its block layout is the reference compaction of the initial
\* layout, and every file id has the number of blocks the disk map gave it.
C27_CompactsLikeReference ==
    /\ [](pc09 # "panic")
    /\ [](Part1Returned =>
            /\ \A i \in 1..Len(fs) : is_file(fs[i].item)
            /\ Blocks(fs) = Trimmed(Reference(Blocks(fs_from_str(disk_map))))
            /\ \A k \in 1..Len(disk_map) :
                  k % 2 = 1 => BlockCount(Blocks(fs), (k - 1) \div 2) = disk_map[k])
    /\ [][(pc09 = "compact" /\ pc09' = "compact") => Remaining' < Remaining]_vars
    /\ [][(pc09 = "cleanup" /\ pc09' = "cleanup") => Len(fs') < Len(fs)]_vars

\* tests::compact_short_example: "12345" compacts to 022111222
C27_Witness ==
    /\ disk_map = ShortExample
    /\ pc09 = "compacted"
    /\ Blocks(fs) = <<0, 2, 2, 1, 1, 1, 2, 2, 2>>

----------------------------------------------------------------------------
(* Properties of compact_filesystem_no_fragments, checked under Spec09 *)

\* the number of blocks in front of entry i
RECURSIVE Offset(_, _)
Offset(list, i) == IF i = 1 THEN 0 ELSE Offset(list, i - 1) + list[i - 1].size

\* the Free entries in front of entry i that can take `size` blocks
SpansLeftOf(list, i, size) ==
    {k \in 1..(i - 1) : is_free(list[k].item) /\ list[k].size >= size}

\* the layout after the file at entry i has gone whole to the front of span k
MovedWhole(list, i, k) ==
    LET layout == Blocks(list)
        from == Offset(list, i)
        to == Offset(list, k)
        size == list[i].size
    IN  [b \in 1..Len(layout) |->
            IF b > to /\ b <= to + size THEN list[i].item
            ELSE IF b > from /\ b <= from + size THEN Free
            ELSE layout[b]]

\* no two Free entries are neighbours
FreeMerged(list) ==
    \A i \in 1..(Len(list) - 1) : ~(is_free(list[i].item) /\ is_free(list[i + 1].item))

\* the iteration under way examines the file under the cursor
Examines ==
    /\ pc09 = "no_fragments"
    /\ is_file(fs[cursor].item)
    /\ fs[cursor].item < lowest_checked_file_id

\* the file ids of a disk map, highest first
RECURSIVE IdsDownFrom(_)
IdsDownFrom(n) == IF n = 0 THEN <<>> ELSE <<n - 1>> \o IdsDownFrom(n - 1)

\* C28: compact_filesystem_no_fragments examines every file exactly once, in
\* decreasing id order; an examined file goes whole to the front of the
\* leftmost Free entry in front of it that is at least its size, and stays
\* where it is when there is none; no two Free entries are ever neighbours,
\* so the span a file leaves is one Free entry with the free space around
\* it; every iteration of the loop keeps the number of blocks, and the
\* cleanup only drops Free entries from the back.
C28_MovesWholeFiles ==
    /\ [](pc09 # "panic")
    /\ [](pc09 \in {"no_fragments", "cleanup_no_fragments", "compacted_no_fragments"} =>
            /\ FreeMerged(fs)
            /\ \A i, j \in 1..Len(considered) : i < j => considered[i] > considered[j])
    /\ [](pc09 = "compacted_no_fragments" =>
            considered = IdsDownFrom((Len(disk_map) + 1) \div 2))
    /\ [][Examines =>
            /\ considered' = Append(considered, fs[cursor].item)
            /\ LET spans == SpansLeftOf(fs, cursor, fs[cursor].size) IN
               IF spans = {} THEN fs' = fs
               ELSE Blocks(fs') = MovedWhole(fs, cursor, SetMin(spans))]_vars
    /\ [][pc09 = "no_fragments" =>
            /\ Len(Blocks(fs')) = Len(Blocks(fs))
            /\ ~Examines => (fs' = fs /\ considered' = considered)]_vars
    /\ [][pc09 = "cleanup_no_fragments" =>
            \/ fs' = fs
            \/ is_free(fs[Len(fs)].item) /\ fs' = pop_back(fs)]_vars

\* tests::compact_long_no_fragments_example:
\* 00992111777.44.333....5555.6666.....8888
C28_Witness ==
    /\ disk_map = LongExample
    /\ pc09 = "compacted_no_fragments"
    /\ considered = <<9, 8, 7, 6, 5, 4, 3, 2, 1, 0>>
    /\ Blocks(fs) =
         <<0, 0, 9, 9, 2, 1, 1, 1, 7, 7, 7, Free, 4, 4, Free, 3, 3, 3, Free, Free,
           Free, Free, 5, 5, 5, 5, Free, 6, 6, 6, 6, Free, Free, Free, Free, Free,
           8, 8, 8, 8>>

----------------------------------------------------------------------------
(* Day 7 (src/day07/src/lib.rs): Operations, a counter over {Add, Mul,     *)
(* Concat} that can_evaluate_true_with_concat steps through                *)

\* enum Operation; Add is the default
Add == "Add"
Mul == "Mul"
Concat == "Concat"
Operation == {Add, Mul, Concat}

\* Operation::increment over Add and Mul alone, as part 1 would have it
operation_increment_no_concat(op) ==
    LET next == IF op = Add THEN Mul ELSE Add
    IN  [op |-> next, overflow |-> next = Add]

\* Operation::increment: the next operation, and whether it is Add again
operation_increment(op) ==
    LET next == IF op = Add THEN Mul ELSE IF op = Mul THEN Concat ELSE Add
    IN  [op |-> next, overflow |-> next = Add]

\* Operations::new
Operations_new(dimension) == [i \in 1..dimension |-> Add]

\* the loop of Operations::increment from index idx (0-based) on
RECURSIVE increment_from(_, _, _)
increment_from(ops, idx, incr) ==
    IF incr /\ idx < Len(ops)
    THEN LET step == operation_increment(ops[idx + 1]) IN
         increment_from([ops EXCEPT ![idx + 1] = step.op], idx + 1, step.overflow)
    ELSE [operands |-> ops, incr |-> incr]

\* Operations::increment: the outcomes of one call.  The debug_assert_eq!
\* compares the return value with `*self == Self::new(len)`; where they
\* differ a debug build panics and a release build returns.
operations_increment(ops) ==
    LET after == increment_from(ops, 0, TRUE)
        returned == [operands |-> after.operands, incr |-> after.incr, panic |-> FALSE]
    IN  IF after.incr = (after.operands = Operations_new(Len(ops)))
        THEN {returned}
        ELSE {returned, [returned EXCEPT !.panic = TRUE]}

\* largest dimension enumerated
MaxDimension == 4

\* calls made past the first overflow
ExtraCalls == 2

\* `let mut operands = Operations::new(self.values.0.len() - 1)`
Init07 ==
    /\ \E dimension \in 0..MaxDimension : operands = Operations_new(dimension)
    /\ overflowed = "false"
    /\ increment_calls = 0
    /\ visited = {}
    /\ ComputerIdle
    /\ SolverIdle
    /\ ManualIdle
    /\ Day09Idle
    /\ Day14Idle

\* one call `overflowed = operands.increment()`
Increment ==
    /\ increment_calls < 3^Len(operands) + ExtraCalls
    /\ overflowed # "panic"
    /\ \E o \in operations_increment(operands) :
        /\ operands' = o.operands
        /\ overflowed' = IF o.panic THEN "panic" ELSE IF o.incr THEN "true" ELSE "false"
    /\ increment_calls' = increment_calls + 1
    /\ visited' = visited \cup {operands'}
    /\ UNCHANGED <<program, computer_vars, solver_vars, manual_vars, day09_vars, day14_vars>>

Next07 == Increment

Spec07 == Init07 /\ [][Next07]_vars

\* every vector of the dimension of operands
AllVectors == [1..Len(operands) -> Operation]

\* C29: Operations::increment returns true exactly when the vector it
\* leaves is all-Add again; from Operations::new(n) the first 3^n calls
\* leave 3^n different vectors, all there are, and the first call to return
\* true is the 3^n-th (the first call when n = 0).
C29_CountsBaseThree ==
    /\ overflowed # "panic"
    /\ increment_calls > 0 =>
        (overflowed = "true" <=> operands = Operations_new(Len(operands)))
    /\ increment_calls <= 3^Len(operands) =>
        /\ Cardinality(visited) = increment_calls
        /\ visited \subseteq AllVectors
        /\ overflowed = "true" <=> increment_calls = 3^Len(operands)
    /\ increment_calls >= 3^Len(operands) => visited = AllVectors

\* the 81st call on four operations is the first to return true
C29_Witness ==
    /\ Len(operands) = 4
    /\ increment_calls = 81
    /\ overflowed = "true"
    /\ Cardinality(visited) = 81

----------------------------------------------------------------------------
(* Day 14 (src/day14/src/lib.rs): the robots of a Simulation.  Positions   *)
(* and velocities are i32: a sum or product outside the i32 range panics   *)
(* in a debug build and wraps modulo 2^32 in a release build.              *)

\* i32::MAX and i32::MIN
MaxI32 == 2147483647
MinI32 == (0 - MaxI32) - 1

\* a + b leaves the i32 range
add_overflows(a, b) ==
    \/ b > 0 /\ a > MaxI32 - b
    \/ b < 0 /\ a < MinI32 - b

\* a + b modulo 2^32 as an i32, computed without leaving the range
wrapping_add(a, b) ==
    IF b > 0 /\ a > MaxI32 - b THEN ((a - MaxI32) - 1) + ((b - MaxI32) - 1)
    ELSE IF b < 0 /\ a < MinI32 - b THEN ((a + MaxI32) + 1) + ((b + MaxI32) + 1)
    ELSE a + b

\* v * n modulo 2^32 as an i32, for n >= 0
RECURSIVE wrapping_mul(_, _)
wrapping_mul(v, n) == IF n = 0 THEN 0 ELSE wrapping_add(wrapping_mul(v, n - 1), v)

\* v * n leaves the i32 range
RECURSIVE mul_overflows(_, _)
mul_overflows(v, n) ==
    /\ n > 0
    /\ \/ mul_overflows(v, n - 1)
       \/ add_overflows(wrapping_mul(v, n - 1), v)

\* the operator % of Rust on i32, for a positive divisor: the remainder has
\* the sign of the dividend
rem(a, divisor) ==
    LET m == a % divisor IN
    IF a < 0 /\ m # 0 THEN m - divisor ELSE m

\* struct Robot; a Point is a record of x and y
Point(x, y) == [x |-> x, y |-> y]
Robot(position, velocity) == [position |-> position, velocity |-> velocity]

\* one coordinate of Robot::teleport_in_bounds
teleport_coordinate(c, size) ==
    LET r == rem(c, size) IN IF r < 0 THEN r + size ELSE r

\* Robot::teleport_in_bounds
teleport_in_bounds(robot, w, h) ==
    [robot EXCEPT !.position = Point(teleport_coordinate(robot.position.x, w),
                                     teleport_coordinate(robot.position.y, h))]

\* `robot.position += robot.velocity * seconds as _`, release build
moved(robot, seconds) ==
    [robot EXCEPT !.position =
        Point(wrapping_add(robot.position.x, wrapping_mul(robot.velocity.x, seconds)),
              wrapping_add(robot.position.y, wrapping_mul(robot.velocity.y, seconds)))]

\* the same statement overflows
move_overflows(robot, seconds) ==
    \/ mul_overflows(robot.velocity.x, seconds)
    \/ mul_overflows(robot.velocity.y, seconds)
    \/ add_overflows(robot.position.x, wrapping_mul(robot.velocity.x, seconds))
    \/ add_overflows(robot.position.y, wrapping_mul(robot.velocity.y, seconds))

\* struct Simulation, with the panic flag of a call that did not return
Simulation(w, h, elapsed, rs, panic) ==
    [width |-> w, height |-> h, elapsed_seconds |-> elapsed, robots |-> rs, panic |-> panic]

\* Simulation::multitick: the outcomes of one call
multitick(sim, seconds) ==
    LET returned ==
            Simulation(sim.width, sim.height, sim.elapsed_seconds + seconds,
                       [i \in 1..Len(sim.robots) |->
                           teleport_in_bounds(moved(sim.robots[i], seconds),
                                              sim.width, sim.height)],
                       FALSE)
    IN  IF \E i \in 1..Len(sim.robots) : move_overflows(sim.robots[i], seconds)
        THEN {returned, [returned EXCEPT !.panic = TRUE]}
        ELSE {returned}

\* Simulation::tick
sim_tick(sim) == multitick(sim, 1)

\* most seconds simulated
MaxSeconds == 4

\* a velocity whose double is past i32::MAX
FastVelocity == 2^30

\* the robot of tests::part1::teleport
TeleportRobot == Robot(Point(2, 4), Point(2, 0 - 3))

\* the robots a Simulation is made with: Robot::from_str takes any
\* non-negative position and any velocity that parse as i32
Robots ==
    {Robot(Point(px, py), Point(vx, vy)) :
        px \in {0, 2, 12}, py \in {0, 4},
        vx \in {0 - 3, 0, 2, FastVelocity}, vy \in {0 - 3, 1, 0 - FastVelocity}}

\* Simulation::new(width, height, robots)
Init14 ==
    /\ width \in {1, 11}
    /\ height \in {1, 7}
    /\ elapsed_seconds = 0
    /\ robots \in {<<r>> : r \in Robots} \cup {<<TeleportRobot, r>> : r \in Robots}
    /\ constructed = robots
    /\ pc14 = "new"
    /\ ComputerIdle
    /\ SolverIdle
    /\ ManualIdle
    /\ Day09Idle
    /\ Day07Idle

\* the simulation as it stands
Current == Simulation(width, height, elapsed_seconds, robots, FALSE)

\* one call simulation.tick()
Tick14 ==
    /\ pc14 \in {"new", "tick"}
    /\ elapsed_seconds < MaxSeconds
    /\ \E o \in sim_tick(Current) :
        /\ elapsed_seconds' = o.elapsed_seconds
        /\ robots' = o.robots
        /\ pc14' = IF o.panic THEN "panic" ELSE "tick"
    /\ UNCHANGED <<width, height, constructed>>
    /\ UNCHANGED <<program, computer_vars, solver_vars, manual_vars, day09_vars, day07_vars>>

\* one call simulation.multitick(seconds) on the simulation as constructed
MultiTick14 ==
    /\ pc14 = "new"
    /\ \E seconds \in 1..MaxSeconds : \E o \in multitick(Current, seconds) :
        /\ elapsed_seconds' = o.elapsed_seconds
        /\ robots' = o.robots
        /\ pc14' = IF o.panic THEN "panic" ELSE "multitick"
    /\ UNCHANGED <<width, height, constructed>>
    /\ UNCHANGED <<program, computer_vars, solver_vars, manual_vars, day09_vars, day07_vars>>

Next14 == Tick14 \/ MultiTick14

Spec14 == Init14 /\ [][Next14]_vars

\* every robot stands inside the arena
InBounds ==
    \A i \in 1..Len(robots) :
        /\ 0 <= robots[i].position.x /\ robots[i].position.x < width
        /\ 0 <= robots[i].position.y /\ robots[i].position.y < height

\* C30 (as claimed): with positive width and height, multitick(n) on the
\* simulation as constructed leaves exactly the robots and elapsed_seconds
\* that n successive calls of tick reach, neither panics, and after either
\* every robot has 0 <= x < width and 0 <= y < height.
C30_MultitickIsTicks ==
    /\ pc14 # "panic"
    /\ pc14 \in {"tick", "multitick"} => InBounds
    /\ pc14 = "tick" =>
        multitick(Simulation(width, height, 0, constructed, FALSE), elapsed_seconds)
            = {Current}

=============================================================================
